---- MODULE Spec2Model ----
(***************************************************************************)
(* A model of the todo CRUD service of src/main.go: six gin handlers over  *)
(* one MongoDB collection.  Every handler is one atomic step around its    *)
(* single database call, except toggleTodoStatus, which makes two calls    *)
(* (FindOne, then UpdateOne) and is therefore two steps, so that other     *)
(* requests can run between its read and its write.                        *)
(***************************************************************************)
EXTENDS Integers, Sequences, FiniteSets, TLC

\* ------------------------------------------------------------------ bounds
MaxDocs == 2        \* documents inserted when no toggle request is served
MaxRaceDocs == 1    \* documents inserted when toggle requests race the others

\* ------------------------------------------------------- program constants
StatusOK == 200
StatusCreated == 201
StatusBadRequest == 400
StatusNotFound == 404
StatusInternalServerError == 500
MinItemLen == 2
MaxItemLen == 100
ObjectIDBytes == 12

VARIABLES
    collection,   \* the documents of todos_db.todos, in insertion order
    nextId,       \* how many ObjectIDs the storage layer has generated, plus one
    inflight,     \* per toggle request: idle, or between FindOne and UpdateOne
    resp,         \* the response of the request that finished last
    deletedOK,    \* history: ObjectIDs whose DELETE request ended with 200
    lateWrites,   \* history: ObjectIDs a toggle's UpdateOne was called on after
                  \* their delete
    mon           \* history: what the toggle requests overlapped with

vars == <<collection, nextId, inflight, resp, deletedOK, lateWrites, mon>>

\* the two toggle requests that can be in flight at once
Togglers == {1, 2}

\* ------------------------------------------------------------- ObjectIDs
HexChars == <<"0", "1", "2", "3", "4", "5", "6", "7",
              "8", "9", "a", "b", "c", "d", "e", "f">>

\* encoding/hex: the value of one character, -1 when it is no hex digit
HexVal(c) ==
    CASE c = "0" -> 0 [] c = "1" -> 1 [] c = "2" -> 2 [] c = "3" -> 3
      [] c = "4" -> 4 [] c = "5" -> 5 [] c = "6" -> 6 [] c = "7" -> 7
      [] c = "8" -> 8 [] c = "9" -> 9
      [] c \in {"a", "A"} -> 10 [] c \in {"b", "B"} -> 11
      [] c \in {"c", "C"} -> 12 [] c \in {"d", "D"} -> 13
      [] c \in {"e", "E"} -> 14 [] c \in {"f", "F"} -> 15
      [] OTHER -> -1

NilObjectID == [i \in 1..ObjectIDBytes |-> 0]

\* ObjectID.Hex(): two lower-case hex characters per byte
Hex(oid) ==
    [i \in 1..(2 * ObjectIDBytes) |->
        LET b == oid[(i + 1) \div 2]
        IN  HexChars[(IF i % 2 = 1 THEN b \div 16 ELSE b % 16) + 1]]

\* faulty variant: a malformed identifier is passed on as the zero ObjectID
ObjectIDFromHexLenient(s) ==
    IF Len(s) # 2 * ObjectIDBytes \/ \E i \in 1..Len(s) : HexVal(s[i]) < 0
    THEN [err |-> FALSE, oid |-> NilObjectID]
    ELSE [err |-> FALSE,
          oid |-> [i \in 1..ObjectIDBytes |->
                      16 * HexVal(s[2 * i - 1]) + HexVal(s[2 * i])]]

\* bson.ObjectIDFromHex(id): an error unless id is 24 hex characters
ObjectIDFromHex(s) ==
    IF Len(s) # 2 * ObjectIDBytes \/ \E i \in 1..Len(s) : HexVal(s[i]) < 0
    THEN [err |-> TRUE, oid |-> NilObjectID]
    ELSE [err |-> FALSE,
          oid |-> [i \in 1..ObjectIDBytes |->
                      16 * HexVal(s[2 * i - 1]) + HexVal(s[2 * i])]]

\* the n-th identifier the storage layer generates on insert (never reused);
\* the low byte starts at 0x0a so that identifiers contain a hex letter
GeneratedID(n) == [i \in 1..ObjectIDBytes |-> IF i = ObjectIDBytes THEN 9 + n ELSE 0]

DocIDs == {GeneratedID(n) : n \in 1..MaxDocs}

\* the :id path parameters requests are made with: the identifiers the storage
\* layer can generate, and malformed ones (one character short, a character
\* that is no hex digit)
WellFormedParams == {Hex(o) : o \in DocIDs}
MalformedParams ==
    { SubSeq(Hex(GeneratedID(1)), 1, 2 * ObjectIDBytes - 1),
      [Hex(GeneratedID(1)) EXCEPT ![1] = "g"] }
PathParams == WellFormedParams \cup MalformedParams

\* bson.ObjectIDFromHex over the path parameters, tabulated
ParsedParam == [p \in PathParams |-> ObjectIDFromHex(p)]

\* ------------------------------------------------------- request bodies
RECURSIVE Repeat(_, _)
Repeat(c, n) == IF n = 0 THEN "" ELSE c \o Repeat(c, n - 1)

\* item texts of length 0, 1, 2, 100 and 101
ItemTexts == {"", "x", "ab", Repeat("y", MaxItemLen), Repeat("z", MaxItemLen + 1)}

\* a request body: malformed JSON, or a JSON object with item and/or completed
JSONObjects ==
    {[item |-> t] : t \in ItemTexts}
        \cup {[item |-> "ab", completed |-> TRUE]}
        \cup {[completed |-> TRUE]}
NoBody == [json |-> FALSE, obj |-> [completed |-> FALSE]]
Bodies == {NoBody} \cup {[json |-> TRUE, obj |-> o] : o \in JSONObjects}

\* ginContext.ShouldBindJSON(&payload) into a todoPayload: absent fields keep
\* their zero value
ShouldBindJSON(body) ==
    IF ~body.json
    THEN [err |-> TRUE, payload |-> [Item |-> "", Completed |-> FALSE]]
    ELSE [err |-> FALSE,
          payload |-> [Item |-> IF "item" \in DOMAIN body.obj
                                THEN body.obj.item ELSE "",
                       Completed |-> IF "completed" \in DOMAIN body.obj
                                     THEN body.obj.completed ELSE FALSE]]

\* faulty variant: only the required tag is enforced
ValidateStructRequiredOnly(payload) ==
    IF payload.Item = ""
    THEN <<[field |-> "Item", tag |-> "required", param |-> ""]>>
    ELSE <<>>

\* Validate.Struct(payload) for `validate:"required,max=100,min=2"` on Item:
\* the first failing tag of the field, or no error
ValidateStruct(payload) ==
    IF payload.Item = ""
    THEN <<[field |-> "Item", tag |-> "required", param |-> ""]>>
    ELSE IF Len(payload.Item) > MaxItemLen
    THEN <<[field |-> "Item", tag |-> "max", param |-> "100"]>>
    ELSE IF Len(payload.Item) < MinItemLen
    THEN <<[field |-> "Item", tag |-> "min", param |-> "2"]>>
    ELSE <<>>

RECURSIVE parseValidationError(_)
parseValidationError(errs) ==
    IF errs = <<>> THEN ""
    ELSE "Field validation for '" \o Head(errs).field \o "' failed: '"
            \o Head(errs).tag \o "' (condition: " \o Head(errs).param \o ")\n"
            \o parseValidationError(Tail(errs))

\* ------------------------------------------------------ the storage layer
ErrNil == ""
ErrNoDocuments == "mongo: no documents in result"
ErrStorage == "storage failure"

\* the zero value of the todo struct, which a failed Decode leaves in place
ZeroTodo == [ID |-> NilObjectID, Item |-> "", Completed |-> FALSE]

Matching(coll, oid) == {i \in 1..Len(coll) : coll[i].ID = oid}

First(S) == CHOOSE i \in S : \A j \in S : i <= j

Without(coll, k) == [i \in 1..(Len(coll) - 1) |-> IF i < k THEN coll[i] ELSE coll[i + 1]]

\* a $set document applied to a stored document
ApplySet(doc, set) ==
    [doc EXCEPT !.Item = IF "item" \in DOMAIN set THEN set.item ELSE @,
                !.Completed = IF "completed" \in DOMAIN set THEN set.completed ELSE @]

\* collection.FindOne(ctx, {_id: oid}).Decode(&todo); `fail` is a storage-layer
\* failure other than "no documents"
FindOne(coll, oid, fail) ==
    IF fail THEN [err |-> ErrStorage, doc |-> ZeroTodo]
    ELSE IF Matching(coll, oid) = {} THEN [err |-> ErrNoDocuments, doc |-> ZeroTodo]
    ELSE [err |-> ErrNil, doc |-> coll[First(Matching(coll, oid))]]

\* collection.InsertOne(ctx, todo): a todo whose ID is the zero ObjectID is
\* stored without _id (omitempty), and the storage layer assigns `fresh`; a
\* failed call returns a nil result
InsertOne(coll, todo, fresh, fail) ==
    IF fail THEN [err |-> ErrStorage, coll |-> coll, nilResult |-> TRUE,
                  InsertedID |-> NilObjectID]
    ELSE LET id == IF todo.ID = NilObjectID THEN fresh ELSE todo.ID
         IN  [err |-> ErrNil, coll |-> Append(coll, [todo EXCEPT !.ID = id]),
              nilResult |-> FALSE, InsertedID |-> id]

\* faulty variant: the update is an upsert, inserting when nothing matches
UpdateOneUpsert(coll, oid, set, fail) ==
    IF fail THEN [err |-> ErrStorage, coll |-> coll, MatchedCount |-> 0]
    ELSE IF Matching(coll, oid) = {}
    THEN [err |-> ErrNil, MatchedCount |-> 0,
          coll |-> Append(coll, ApplySet([ZeroTodo EXCEPT !.ID = oid], set))]
    ELSE LET k == First(Matching(coll, oid))
         IN  [err |-> ErrNil, coll |-> [coll EXCEPT ![k] = ApplySet(@, set)],
              MatchedCount |-> 1]

\* faulty variant: the update is acknowledged and not applied
UpdateOneDropped(coll, oid, set, fail) ==
    IF fail THEN [err |-> ErrStorage, coll |-> coll, MatchedCount |-> 0]
    ELSE [err |-> ErrNil, coll |-> coll,
          MatchedCount |-> IF Matching(coll, oid) = {} THEN 0 ELSE 1]

\* collection.UpdateOne(ctx, {_id: oid}, {$set: set}): matching no document is
\* not an error, it is a result with MatchedCount 0
UpdateOne(coll, oid, set, fail) ==
    IF fail THEN [err |-> ErrStorage, coll |-> coll, MatchedCount |-> 0]
    ELSE IF Matching(coll, oid) = {}
    THEN [err |-> ErrNil, coll |-> coll, MatchedCount |-> 0]
    ELSE LET k == First(Matching(coll, oid))
         IN  [err |-> ErrNil, coll |-> [coll EXCEPT ![k] = ApplySet(@, set)],
              MatchedCount |-> 1]

\* collection.FindOneAndUpdate(ctx, {_id: oid}, {$set: set},
\* SetReturnDocument(After)).Decode(&updatedTodo)
FindOneAndUpdate(coll, oid, set, fail) ==
    IF fail THEN [err |-> ErrStorage, coll |-> coll, doc |-> ZeroTodo]
    ELSE IF Matching(coll, oid) = {}
    THEN [err |-> ErrNoDocuments, coll |-> coll, doc |-> ZeroTodo]
    ELSE LET k == First(Matching(coll, oid))
         IN  [err |-> ErrNil, coll |-> [coll EXCEPT ![k] = ApplySet(@, set)],
              doc |-> ApplySet(coll[k], set)]

\* collection.FindOneAndDelete(ctx, {_id: oid}).Decode(&deletedTodo)
FindOneAndDelete(coll, oid, fail) ==
    IF fail THEN [err |-> ErrStorage, coll |-> coll, doc |-> ZeroTodo]
    ELSE IF Matching(coll, oid) = {}
    THEN [err |-> ErrNoDocuments, coll |-> coll, doc |-> ZeroTodo]
    ELSE LET k == First(Matching(coll, oid))
         IN  [err |-> ErrNil, coll |-> Without(coll, k), doc |-> coll[k]]

\* ------------------------------------------------------------ responses
ErrorBody(msg) == [error |-> msg]

\* a request, as far as the handler had read it when it responded: its :id path
\* parameter (empty when the route has none) and its body (NoBody when the
\* handler had not bound it)
Request(id, body) == [id |-> id, body |-> body]

\* ginContext.JSON / IndentedJSON (status, body) by handler `op` to request
\* `req`, whose parsed identifier is `oid`, after `calls` database calls;
\* `panic`: the handler then panicked (gin's Recovery ends the request, the
\* status is already written)
Response(op, req, oid, status, body, calls, panic) ==
    [op |-> op, req |-> req, oid |-> oid, status |-> status, body |-> body,
     calls |-> calls, panic |-> panic]

NoResponse == Response("none", Request(<<>>, NoBody), NilObjectID, 0,
                       ErrorBody(""), 0, FALSE)

\* faulty variant: every storage error is an internal error
StatusOfAlwaysInternal(err) == StatusInternalServerError

\* `if err == mongo.ErrNoDocuments { 404 } else { 500 }`
StatusOf(err) ==
    IF err = ErrNoDocuments THEN StatusNotFound ELSE StatusInternalServerError

Idle == [pc |-> "idle", id |-> <<>>, objectId |-> NilObjectID, todo |-> ZeroTodo]

\* ------------------------------------------------------------- handlers
\* POST /todos
createTodo ==
    \E body \in Bodies :
        LET bound == ShouldBindJSON(body)
            verrs == ValidateStruct(bound.payload)
            todo == [ID |-> NilObjectID, Item |-> bound.payload.Item,
                     Completed |-> bound.payload.Completed]
        IN
        /\ UNCHANGED inflight
        /\ IF bound.err
           THEN /\ resp' = Response("create", Request(<<>>, body), NilObjectID, StatusBadRequest,
                                    ErrorBody("invalid request body"), 0, FALSE)
                /\ UNCHANGED <<collection, nextId>>
           ELSE IF verrs # <<>>
           THEN /\ resp' = Response("create", Request(<<>>, body), NilObjectID, StatusBadRequest,
                                    ErrorBody(parseValidationError(verrs)), 0, FALSE)
                /\ UNCHANGED <<collection, nextId>>
           ELSE \E fail \in BOOLEAN :
                LET ins == InsertOne(collection, todo, GeneratedID(nextId), fail)
                IN
                IF ins.err # ErrNil
                THEN \* 500 is written, the handler does not return, and
                     \* insertResult.InsertedID dereferences the nil result
                     /\ resp' = Response("create", Request(<<>>, body), NilObjectID,
                                         StatusInternalServerError,
                                         ErrorBody(ins.err), 1, ins.nilResult)
                     /\ UNCHANGED <<collection, nextId>>
                ELSE /\ collection' = ins.coll
                     /\ nextId' = nextId + 1
                     /\ resp' = Response("create", Request(<<>>, body), ins.InsertedID, StatusCreated,
                                         [todo EXCEPT !.ID = ins.InsertedID],
                                         1, FALSE)

\* GET /todos
getTodos ==
    \E fail \in BOOLEAN :
        /\ resp' = IF fail
                   THEN Response("list", Request(<<>>, NoBody), NilObjectID, StatusInternalServerError,
                                 ErrorBody(ErrStorage), 1, FALSE)
                   ELSE Response("list", Request(<<>>, NoBody), NilObjectID, StatusOK,
                                 [todos |-> collection], 1, FALSE)
        /\ UNCHANGED <<collection, nextId, inflight>>

\* GET /todos/:id
getTodo ==
    \E id \in PathParams :
        LET parsed == ParsedParam[id]
        IN
        /\ UNCHANGED <<collection, nextId, inflight>>
        /\ IF parsed.err
           THEN resp' = Response("get", Request(id, NoBody), NilObjectID, StatusBadRequest,
                                 ErrorBody("invalid id format"), 0, FALSE)
           ELSE \E fail \in BOOLEAN :
                LET found == FindOne(collection, parsed.oid, fail)
                IN
                resp' = IF found.err # ErrNil
                        THEN Response("get", Request(id, NoBody), parsed.oid, StatusOf(found.err),
                                      ErrorBody(found.err), 1, FALSE)
                        ELSE Response("get", Request(id, NoBody), parsed.oid, StatusOK, found.doc, 1, FALSE)

\* faulty variant: the toggle always sets completed
ToggleSetTrue(todo) == [completed |-> TRUE]

\* `update := bson.M{"$set": bson.M{"completed": !todo.Completed}}`
ToggleSet(todo) == [completed |-> ~todo.Completed]

\* PATCH /todos/:id, up to and including FindOne
toggleTodoStatusFindOne ==
    \E s \in Togglers, id \in PathParams :
        LET parsed == ParsedParam[id]
        IN
        /\ inflight[s].pc = "idle"
        /\ UNCHANGED <<collection, nextId>>
        /\ IF parsed.err
           THEN /\ resp' = Response("toggle", Request(id, NoBody), NilObjectID, StatusBadRequest,
                                    ErrorBody("invalid id format"), 0, FALSE)
                /\ UNCHANGED inflight
           ELSE \E fail \in BOOLEAN :
                LET found == FindOne(collection, parsed.oid, fail)
                IN
                IF found.err # ErrNil
                THEN /\ resp' = Response("toggle", Request(id, NoBody), parsed.oid, StatusOf(found.err),
                                         ErrorBody(IF found.err = ErrNoDocuments
                                                   THEN "document not found"
                                                   ELSE found.err), 1, FALSE)
                     /\ UNCHANGED inflight
                ELSE /\ inflight' = [inflight EXCEPT ![s] =
                                        [pc |-> "UpdateOne", id |-> id, objectId |-> parsed.oid,
                                         todo |-> found.doc]]
                     /\ UNCHANGED resp

\* PATCH /todos/:id, from UpdateOne to the response
toggleTodoStatusUpdateOne ==
    \E s \in Togglers, fail \in BOOLEAN :
        /\ inflight[s].pc = "UpdateOne"
        /\ LET todo == inflight[s].todo
               oid == inflight[s].objectId
               res == UpdateOne(collection, oid, ToggleSet(todo), fail)
           IN
           /\ inflight' = [inflight EXCEPT ![s] = Idle]
           /\ collection' = res.coll
           /\ UNCHANGED nextId
           /\ resp' = IF res.err # ErrNil
                      THEN Response("toggle", Request(inflight[s].id, NoBody), oid, StatusInternalServerError,
                                    ErrorBody(res.err), 2, FALSE)
                      ELSE Response("toggle", Request(inflight[s].id, NoBody), oid, StatusOK,
                                    [todo EXCEPT !.Completed = ~todo.Completed],
                                    2, FALSE)

\* faulty variant: the payload's completed is written too
ItemSetWithCompleted(payload) == [item |-> payload.Item, completed |-> payload.Completed]

\* `update := bson.M{"$set": bson.M{"item": payload.Item}}`
ItemSet(payload) == [item |-> payload.Item]

\* PUT /todos/:id
updateTodo ==
    \E id \in PathParams, body \in Bodies :
        LET parsed == ParsedParam[id]
            bound == ShouldBindJSON(body)
            verrs == ValidateStruct(bound.payload)
        IN
        /\ UNCHANGED <<nextId, inflight>>
        /\ IF parsed.err
           THEN /\ resp' = Response("update", Request(id, NoBody), NilObjectID,
                                    StatusBadRequest,
                                    ErrorBody("invalid id format"), 0, FALSE)
                /\ UNCHANGED collection
           ELSE IF bound.err
           THEN /\ resp' = Response("update", Request(id, body), parsed.oid, StatusBadRequest,
                                    ErrorBody("invalid request body"), 0, FALSE)
                /\ UNCHANGED collection
           ELSE IF verrs # <<>>
           THEN /\ resp' = Response("update", Request(id, body), parsed.oid, StatusBadRequest,
                                    ErrorBody(parseValidationError(verrs)), 0, FALSE)
                /\ UNCHANGED collection
           ELSE \E fail \in BOOLEAN :
                LET res == FindOneAndUpdate(collection, parsed.oid,
                                            ItemSet(bound.payload), fail)
                IN
                IF res.err # ErrNil
                THEN /\ resp' = Response("update", Request(id, body), parsed.oid, StatusOf(res.err),
                                         ErrorBody(IF res.err = ErrNoDocuments
                                                   THEN "todo not found" ELSE res.err),
                                         1, FALSE)
                     /\ UNCHANGED collection
                ELSE /\ collection' = res.coll
                     /\ resp' = Response("update", Request(id, body), parsed.oid, StatusOK, res.doc,
                                         1, FALSE)

\* DELETE /todos/:id
deleteTodo ==
    \E id \in PathParams :
        LET parsed == ParsedParam[id]
        IN
        /\ UNCHANGED <<nextId, inflight>>
        /\ IF parsed.err
           THEN /\ resp' = Response("delete", Request(id, NoBody), NilObjectID, StatusBadRequest,
                                    ErrorBody("invalid id format"), 0, FALSE)
                /\ UNCHANGED collection
           ELSE \E fail \in BOOLEAN :
                LET res == FindOneAndDelete(collection, parsed.oid, fail)
                IN
                IF res.err # ErrNil
                THEN /\ resp' = Response("delete", Request(id, NoBody), parsed.oid, StatusOf(res.err),
                                         ErrorBody(IF res.err = ErrNoDocuments
                                                   THEN "document not found"
                                                   ELSE res.err), 1, FALSE)
                     /\ UNCHANGED collection
                ELSE /\ collection' = res.coll
                     /\ resp' = Response("delete", Request(id, NoBody), parsed.oid, StatusOK, res.doc,
                                         1, FALSE)

\* ------------------------------------------------------------ history
\* History variables record what has happened; no handler reads them.

\* the identifiers whose delete request has ended with 200
Deleted ==
    /\ deletedOK' = IF resp'.op = "delete" /\ resp'.status = StatusOK
                    THEN deletedOK \cup {resp'.oid} ELSE deletedOK
    /\ lateWrites' = lateWrites \cup
                        {inflight[s].objectId : s \in
                            {x \in Togglers : /\ inflight[x].pc = "UpdateOne"
                                              /\ inflight'[x].pc = "idle"
                                              /\ inflight[x].objectId \in deletedOK
                                              /\ resp'.status = StatusOK}}

\* Per toggle request in flight: `since`, the writes that reached its document
\* after its FindOne ("none"; "oneToggle", the UpdateOne of one toggle request
\* that itself had seen none; "other"), and `prev`, the document as it was
\* before the toggle request that ended last before its FindOne, when that one
\* had seen no write.  Per document: `last`, that document for the next FindOne.
\* `done` names what the UpdateOne that ended last has completed: two toggle
\* requests one after the other ("sequential"), or two that overlapped
\* ("overlapped"), and `orig` is the document before the two.
NoToggle == [since |-> "none", prev |-> <<>>]
NoPair == [kind |-> "none", orig |-> ZeroTodo]
NoMon == [tog |-> [s \in Togglers |-> NoToggle],
          last |-> [o \in DocIDs |-> <<>>],
          done |-> NoPair]

Started == {s \in Togglers : inflight[s].pc = "idle" /\ inflight'[s].pc = "UpdateOne"}
Ended == {s \in Togglers : inflight[s].pc = "UpdateOne" /\ inflight'[s].pc = "idle"}

Observed ==
    mon' =
        IF Started # {}
        THEN LET s == CHOOSE x \in Started : TRUE
             IN  [mon EXCEPT !.tog[s] =
                     [since |-> "none", prev |-> mon.last[inflight'[s].objectId]]]
        ELSE IF Ended # {} /\ resp'.status = StatusOK
        THEN LET s == CHOOSE x \in Ended : TRUE
                 oid == inflight[s].objectId
                 mine == mon.tog[s]
             IN  [tog |-> [x \in Togglers |->
                              IF x = s THEN NoToggle
                              ELSE IF inflight[x].pc = "UpdateOne"
                                      /\ inflight[x].objectId = oid
                              THEN [mon.tog[x] EXCEPT !.since =
                                       IF @ = "none" /\ mine.since = "none"
                                       THEN "oneToggle" ELSE "other"]
                              ELSE mon.tog[x]],
                  last |-> [mon.last EXCEPT ![oid] =
                               IF mine.since = "none" THEN <<inflight[s].todo>>
                               ELSE <<>>],
                  done |-> IF mine.since = "none" /\ mine.prev # <<>>
                           THEN [kind |-> "sequential", orig |-> mine.prev[1]]
                           ELSE IF mine.since = "oneToggle"
                           THEN [kind |-> "overlapped", orig |-> inflight[s].todo]
                           ELSE NoPair]
        ELSE IF Ended # {}
        THEN LET s == CHOOSE x \in Ended : TRUE
             IN  [mon EXCEPT !.tog[s] = NoToggle, !.done = NoPair]
        ELSE [mon EXCEPT !.done = NoPair]

\* ---------------------------------------------------------------- Init
\* the state after main() has connected and registered the routes
Init ==
    /\ collection = <<>>
    /\ nextId = 1
    /\ inflight = [s \in Togglers |-> Idle]
    /\ resp = NoResponse
    /\ deletedOK = {}
    /\ lateWrites = {}
    /\ mon = NoMon

\* the router: requests are served concurrently, one goroutine each; at most
\* MaxRaceDocs documents are inserted
Next ==
    \/ nextId <= MaxRaceDocs /\ createTodo /\ Deleted /\ UNCHANGED mon
    \/ getTodos /\ Deleted /\ UNCHANGED mon
    \/ getTodo /\ Deleted /\ UNCHANGED mon
    \/ toggleTodoStatusFindOne /\ Deleted /\ UNCHANGED mon
    \/ toggleTodoStatusUpdateOne /\ Deleted /\ UNCHANGED mon
    \/ updateTodo /\ Deleted /\ UNCHANGED mon
    \/ deleteTodo /\ Deleted /\ UNCHANGED mon

Spec == Init /\ [][Next]_vars

\* the service when no PATCH request is made: at most MaxDocs documents
NextCrud ==
    \/ nextId <= MaxDocs /\ createTodo /\ Deleted /\ UNCHANGED mon
    \/ getTodos /\ Deleted /\ UNCHANGED mon
    \/ getTodo /\ Deleted /\ UNCHANGED mon
    \/ updateTodo /\ Deleted /\ UNCHANGED mon
    \/ deleteTodo /\ Deleted /\ UNCHANGED mon

SpecCrud == Init /\ [][NextCrud]_vars

\* the item of the n-th document of a seeded collection
SeedItem(n) == IF n % 2 = 1 THEN "ab" ELSE Repeat("y", MaxItemLen)

\* the service after k create requests, when only PATCH requests follow
InitToggles ==
    /\ \E k \in 1..MaxRaceDocs :
          \E done \in [1..k -> BOOLEAN] :
              /\ collection = [i \in 1..k |->
                                  [ID |-> GeneratedID(i), Item |-> SeedItem(i),
                                   Completed |-> done[i]]]
              /\ nextId = k + 1
              /\ resp = Response("create",
                                 Request(<<>>, [json |-> TRUE,
                                                obj |-> [item |-> SeedItem(k),
                                                         completed |-> done[k]]]),
                                 GeneratedID(k), StatusCreated, collection[k],
                                 1, FALSE)
    /\ inflight = [s \in Togglers |-> Idle]
    /\ deletedOK = {}
    /\ lateWrites = {}
    /\ mon = NoMon

NextToggles ==
    \/ toggleTodoStatusFindOne /\ Deleted /\ Observed
    \/ toggleTodoStatusUpdateOne /\ Deleted /\ Observed

SpecToggles == InitToggles /\ [][NextToggles]_vars

\* ---------------------------------------------------------------- claims
\* What the claims say of a request, stated without the handlers' own parsing.

\* a syntactically valid identifier: 24 hexadecimal characters
HexDigits == {"0", "1", "2", "3", "4", "5", "6", "7", "8", "9",
              "a", "b", "c", "d", "e", "f", "A", "B", "C", "D", "E", "F"}
ValidHexID(s) == Len(s) = 2 * ObjectIDBytes /\ \A i \in 1..Len(s) : s[i] \in HexDigits

JsonItem(obj) == IF "item" \in DOMAIN obj THEN obj.item ELSE ""
JsonCompleted(obj) == IF "completed" \in DOMAIN obj THEN obj.completed ELSE FALSE

\* a body that is well-formed JSON whose item has 2 to 100 characters
ValidBody(body) ==
    /\ body.json
    /\ Len(JsonItem(body.obj)) >= MinItemLen
    /\ Len(JsonItem(body.obj)) <= MaxItemLen

\* the response reports a storage-layer failure other than "no documents"
StorageFailed(r) == "error" \in DOMAIN r.body /\ r.body.error = ErrStorage

\* the handlers that take an :id path parameter
ByID == {"get", "toggle", "update", "delete"}

StoredDoc(oid) == FindOne(collection, oid, FALSE).doc

\* C1: a toggle whose record was deleted between its FindOne and its UpdateOne
\* ends with 404, not with 200 (and not with 500 when the storage layer
\* answered).
C1_LateNotFoundIs404 ==
    (resp.op = "toggle" /\ resp.calls = 2 /\ resp.oid \in deletedOK
        /\ ~StorageFailed(resp))
        => resp.status = StatusNotFound

\* C2: a get, toggle, update or delete request whose identifier is not
\* syntactically valid ends with 400, after no database call and with the
\* collection as it was, whatever its body.
C2_InvalidIdIs400 ==
    [][(resp'.op \in ByID /\ ~ValidHexID(resp'.req.id))
          => /\ resp'.status = StatusBadRequest
             /\ resp'.calls = 0
             /\ collection' = collection]_vars

C2_Witness ==
    /\ resp.op = "update"
    /\ ~ValidHexID(resp.req.id)
    /\ resp.status = StatusBadRequest
    /\ collection # <<>>

\* C3, as stated: a get, toggle, update or delete request whose identifier is
\* well-formed and matches no stored record ends with 404, for update whatever
\* the body (the storage layer answering).
C3_UnknownIdIs404 ==
    [][(/\ resp' # resp
        /\ resp'.op \in ByID
        /\ ValidHexID(resp'.req.id)
        /\ resp'.calls <= 1
        /\ Matching(collection, resp'.oid) = {}
        /\ ~StorageFailed(resp'))
          => resp'.status = StatusNotFound]_vars

\* C3, amended: such a request ends with 404 when the storage layer answers,
\* except that an update whose body is malformed JSON or fails validation ends
\* with 400 before any database call.
C3_UnknownIdIs404UnlessBadBody ==
    [][(/\ resp' # resp
        /\ resp'.op \in ByID
        /\ ValidHexID(resp'.req.id)
        /\ resp'.calls <= 1
        /\ Matching(collection, resp'.oid) = {}
        /\ ~StorageFailed(resp'))
          => IF resp'.op = "update" /\ ~ValidBody(resp'.req.body)
             THEN resp'.status = StatusBadRequest /\ resp'.calls = 0
             ELSE resp'.status = StatusNotFound]_vars

C3_Witness ==
    /\ resp.op = "update"
    /\ ValidHexID(resp.req.id)
    /\ ValidBody(resp.req.body)
    /\ Matching(collection, resp.oid) = {}
    /\ resp.status = StatusNotFound

\* C4: two toggle requests on an existing record, one after the other with no
\* write to the record in between, leave the stored record (identifier, item
\* and completed) as it was before the first, and the second one's response is
\* that record.
C4_ToggleTwiceRestores ==
    mon.done.kind = "sequential"
        => /\ resp.op = "toggle"
           /\ resp.status = StatusOK
           /\ Matching(collection, resp.oid) # {}
           /\ StoredDoc(resp.oid) = mon.done.orig
           /\ resp.body = mon.done.orig

C4_Witness ==
    /\ mon.done.kind = "sequential"
    /\ resp.status = StatusOK
    /\ mon.done.orig.Completed

\* C5: an update that ends with 200 changes the item of the record it names to
\* the payload's item and nothing else in the collection (not the record's
\* completed or identifier, whatever completed the payload carries, and no
\* other record), and responds with the record as stored after it.
C5_UpdateChangesOnlyItem ==
    [][(resp'.op = "update" /\ resp'.status = StatusOK)
          => \E k \in Matching(collection, resp'.oid) :
                /\ collection' = [collection EXCEPT
                                     ![k].Item = JsonItem(resp'.req.body.obj)]
                /\ resp'.body = collection'[k]]_vars

C5_Witness ==
    /\ resp.op = "update"
    /\ resp.status = StatusOK
    /\ Len(collection) = 2
    /\ JsonCompleted(resp.req.body.obj) # resp.body.Completed
    /\ resp.body.Item = "ab"
    /\ \E i \in 1..Len(collection) : collection[i].Item # "ab"

\* C6: the record a toggle request returns with 200 is the record as stored
\* after its write.
C6_ToggleReturnsStored ==
    (resp.op = "toggle" /\ resp.status = StatusOK)
        => /\ Matching(collection, resp.oid) # {}
           /\ StoredDoc(resp.oid) = resp.body

\* C7: a database call that fails with an error other than "no documents" is
\* answered with 500 and ends the handler: it makes no further use of the
\* call's result.
C7_StorageFailureIsTerminal ==
    StorageFailed(resp) => (resp.status = StatusInternalServerError /\ ~resp.panic)

\* C8: a create request with well-formed JSON is rejected with 400, inserting
\* nothing, when its item has 0, 1 or more than 100 characters; with 2 to 100
\* characters it inserts one record with that item and the payload's completed
\* (false when absent) and ends with 201 carrying that record, unless the
\* insert itself fails.
C8_CreateValidatesItemLength ==
    [][(resp'.op = "create" /\ resp'.req.body.json)
          => LET obj == resp'.req.body.obj
                 n == Len(JsonItem(obj))
             IN  IF n < MinItemLen \/ n > MaxItemLen
                 THEN resp'.status = StatusBadRequest /\ collection' = collection
                 ELSE \/ StorageFailed(resp') /\ collection' = collection
                      \/ /\ resp'.status = StatusCreated
                         /\ Len(collection') = Len(collection) + 1
                         /\ collection' = Append(collection, resp'.body)
                         /\ resp'.body.Item = JsonItem(obj)
                         /\ resp'.body.Completed = JsonCompleted(obj)
                         /\ resp'.body.ID # NilObjectID]_vars

C8_Witness ==
    /\ resp.op = "create"
    /\ resp.status = StatusCreated
    /\ Len(resp.body.Item) = MaxItemLen
    /\ collection[Len(collection)] = resp.body

C10_NoToggleLost ==
    mon.done.kind \in {"sequential", "overlapped"}
        => StoredDoc(resp.oid).Completed = mon.done.orig.Completed

\* C10, amended: when both requests read before either wrote, both write the
\* negation of the value before the two, which is then the stored value and
\* the value both responses carry (one toggle is lost); the stored value is
\* the original one only when the second request reads after the first wrote.
C10_OverlappedTogglesLoseOne ==
    /\ mon.done.kind = "overlapped"
          => /\ resp.status = StatusOK
             /\ StoredDoc(resp.oid).Completed = ~mon.done.orig.Completed
             /\ resp.body.Completed = ~mon.done.orig.Completed
    /\ mon.done.kind = "sequential"
          => StoredDoc(resp.oid).Completed = mon.done.orig.Completed

C10_Witness ==
    /\ mon.done.kind = "overlapped"
    /\ resp.status = StatusOK
    /\ StoredDoc(resp.oid).Completed # mon.done.orig.Completed

====
